---- MODULE Spec2Model ----
(***************************************************************************)
(* The theremin's real-time control pipeline: the gesture detector and     *)
(* control mapper of useHandTracking, the smoothing loop and the gesture   *)
(* handlers of useAudioEngine, the App component that wires them, and the  *)
(* AudioEngine they drive.                                                 *)
(*                                                                         *)
(* Numbers.  Landmark coordinates, volumes and delay mixes are counted in  *)
(* hundredths (0.05 is 5, 0.3 is 30, 1.0 is 100); pitches are in Hz; times *)
(* are in ms.  The smoothed values currentPitch and currentVol carry       *)
(* FixedPoint further steps per unit, and the master gain, which is the    *)
(* square of a volume, is counted in squares of that step.                 *)
(***************************************************************************)
EXTENDS Integers, Sequences, FiniteSets, TLC

\* ---------------------------------------------------------------- constants
MIN_FREQ == 100
MAX_FREQ == 1500
GESTURE_COOLDOWN == 1000
\* getDistance(...) < 0.05 and < 0.15, in hundredths
PINCH_THRESHOLD == 5
FIST_THRESHOLD == 15
\* curledCount >= 3
FIST_MIN_CURLED == 3
\* lerp(current, target, 0.15), in percent
SMOOTHING_FACTOR == 15
\* setTimeout(..., 1500)
FEEDBACK_MS == 1500
\* useState(0.3) and AudioEngine.currentDelayMix = 0.3
DEFAULT_DELAY_MIX == 30
\* toggleDelay: delayMix > 0.1 ? 0 : 0.5
TOGGLE_THRESHOLD == 10
TOGGLE_ON_MIX == 50
\* <input type="range" min="0" max="0.8">
SLIDER_MAX == 80
\* osc.frequency.value = 440
DEFAULT_OSC_FREQ == 440
\* currentPitch = useRef(targetPitch.current || 440)
FALLBACK_PITCH == 440

WAVES == <<"sine", "triangle", "sawtooth", "square">>

\* ------------------------------------------------------------------- bounds
\* steps of the smoothed values per unit
FixedPoint == 1000
\* ms of vision ticks that are explored after the page has loaded
MaxElapsed == 1500
\* smoothing-loop iterations that are explored
MaxIter == 2
\* manual control changes that are explored
MaxManual == 1
\* smoothing-loop iterations that are explored after one vision tick
MaxHeld == 45

\* Date.now() when the component mounts: an epoch time, far beyond the
\* cooldown, so that the first gesture is never debounced
PageLoadTime == 10 * GESTURE_COOLDOWN

\* ms between one vision tick and the next
TickGaps == {200, 1100}
ControlGaps == {400}
\* mixes handed to AudioEngine.setDelayMix directly: "0 to 1" (part_001:154)
EngineMixes == {0, 90, 100}
\* positions the delay slider is moved to
SliderValues == {0, TOGGLE_THRESHOLD, TOGGLE_THRESHOLD + 1, SLIDER_MAX}

\* --------------------------------------------------------------- hand frames
Pt(x, y) == [x |-> x, y |-> y]
Shift(p, d) == Pt(p.x + d[1], p.y + d[2])

\* The landmarks the code reads: 0 wrist, 4 thumb tip, 8 index tip,
\* 12 middle tip, 16 ring tip, 20 pinky tip.
LandmarkIds == {0, 4, 8, 12, 16, 20}
TIPS == <<8, 12, 16, 20>>

\* A hand record: the index tip, the thumb tip at thumbOff from it, the
\* wrist at wristOff from it, and each other finger tip at closeOff from the
\* wrist when it is in curled and at farOff otherwise.
MkHand(label, indexTip, thumbOff, wristOff, curled) ==
    LET wrist == Shift(indexTip, wristOff)
        tip(i) == IF i \in curled THEN Shift(wrist, <<6, 8>>)
                                  ELSE Shift(wrist, <<9, 12>>)
    IN  [label |-> label,
         landmarks |-> [i \in LandmarkIds |->
                           CASE i = 0 -> wrist
                             [] i = 4 -> Shift(indexTip, thumbOff)
                             [] i = 8 -> indexTip
                             [] OTHER -> tip(i)]]

\* thumb 0.03 from the index tip, and exactly 0.05 from it
PinchOff == <<3, 0>>
NoPinchOff == <<3, 4>>
\* index tip 0.10 from the wrist, and 0.40 from it
WristNear == <<0, 10>>
WristFar == <<0, 40>>

RightPinch == MkHand("Right", Pt(25, 50), PinchOff, WristFar, {})
RightOpen == MkHand("Right", Pt(-10, 50), NoPinchOff, WristFar, {})
LeftFist == MkHand("Left", Pt(50, 90), NoPinchOff, WristNear, {12, 16})
LeftOpen == MkHand("Left", Pt(50, -10), NoPinchOff, WristNear, {12})

\* an open right hand with its index tip at x, an open left hand with it at y
RightAt(x) == MkHand("Right", Pt(x, 50), NoPinchOff, WristFar, {})
LeftAt(y) == MkHand("Left", Pt(50, y), NoPinchOff, WristFar, {})

\* The ticks of the gesture specifications: no hand, each hand with and
\* without its gesture, and both gestures in one tick in either order.
GestureFrames ==
    { <<>>, <<RightPinch>>, <<RightOpen>>, <<LeftFist>>, <<LeftOpen>>,
      <<RightPinch, LeftFist>>, <<LeftFist, RightPinch>> }

\* The ticks of the control specification: index tips inside, on the edge
\* of and outside the frame, one hand or both.
Coordinates == {-10, 0, 25, 90, 100, 110}
ControlFrames ==
    {<<>>, <<RightPinch>>, <<RightPinch, LeftAt(90)>>,
     <<LeftAt(0), RightAt(0)>>}
        \cup {<<RightAt(x)>> : x \in Coordinates}
        \cup {<<LeftAt(y)>> : y \in Coordinates}

\* ------------------------------------------------------------ pure functions
\* no smoothing: the value jumps to its target
lerpSnaps(start, end, amt) == end
\* amt taken as per mille: the filter ten times slower
lerpPerMille(start, end, amt) == ((1000 - amt) * start + amt * end) \div 1000
\* the weights exchanged
lerpSwapped(start, end, amt) == (amt * start + (100 - amt) * end) \div 100

\* utils.ts lerp: (1 - amt) * start + amt * end, amt in percent, rounded down
\* to the fixed-point step
lerp(start, end, amt) == ((100 - amt) * start + amt * end) \div 100

\* The square of utils.ts getDistance = Math.hypot(dx, dy); a distance is
\* below a threshold exactly when its square is below the threshold's square.
getDistanceSq(p1, p2) ==
    (p1.x - p2.x) * (p1.x - p2.x) + (p1.y - p2.y) * (p1.y - p2.y)

Below(p1, p2, threshold) == getDistanceSq(p1, p2) < threshold * threshold

\* Math.min left out: only the lower limit is applied
ClampBelowOnly(lo, hi, v) == IF v < lo THEN lo ELSE v

\* Math.max(lo, Math.min(hi, v))
Clamp(lo, hi, v) == IF v > hi THEN hi ELSE IF v < lo THEN lo ELSE v

\* Math.round of a fixed-point value
Round(v) == (v + FixedPoint \div 2) \div FixedPoint

\* the x axis not mirrored: MIN_FREQ + indexTip.x * (MAX_FREQ - MIN_FREQ)
PitchNotMirrored(x) ==
    Clamp(MIN_FREQ, MAX_FREQ, MIN_FREQ + (x * (MAX_FREQ - MIN_FREQ)) \div 100)

\* useHandTracking.ts:98-99, x in hundredths:
\* MIN_FREQ + (1 - indexTip.x) * (MAX_FREQ - MIN_FREQ), clamped
PitchFor(x) ==
    Clamp(MIN_FREQ, MAX_FREQ,
          MIN_FREQ + ((100 - x) * (MAX_FREQ - MIN_FREQ)) \div 100)

\* the y axis not inverted: indexTip.y taken as the volume
VolumeNotInverted(y) == Clamp(0, 100, y)

\* useHandTracking.ts:112-113, y and the result in hundredths
VolumeFor(y) == Clamp(0, 100, 100 - y)

\* the cooldown compared in seconds, and compared with <= instead of <
CooldownInSeconds(t, last) == ~(t - last < GESTURE_COOLDOWN \div 1000)
CooldownExclusive(t, last) == ~(t - last <= GESTURE_COOLDOWN)

\* useHandTracking.ts:32, negated: the debounce lets the call through
CooldownElapsed(t, last) == ~(t - last < GESTURE_COOLDOWN)

\* <= in place of <: a thumb at the threshold counts as a pinch, a tip at
\* the threshold as curled
IsPinchInclusive(landmarks) ==
    getDistanceSq(landmarks[4], landmarks[8])
        <= PINCH_THRESHOLD * PINCH_THRESHOLD
curledCountInclusive(landmarks) ==
    Cardinality({i \in 1..Len(TIPS) :
                    getDistanceSq(landmarks[TIPS[i]], landmarks[0])
                        <= FIST_THRESHOLD * FIST_THRESHOLD})

\* useHandTracking.ts:36-37
IsPinch(landmarks) == Below(landmarks[4], landmarks[8], PINCH_THRESHOLD)

\* useHandTracking.ts:45-50
curledCount(landmarks) ==
    Cardinality({i \in 1..Len(TIPS) :
                    Below(landmarks[TIPS[i]], landmarks[0], FIST_THRESHOLD)})

\* useHandTracking.ts:30-56: the gesture one call emits, "none" for nothing
handleGestureDetection(landmarks, label, t, last) ==
    IF ~CooldownElapsed(t, last) THEN "none"
    ELSE IF label = "Right" /\ IsPinch(landmarks) THEN "cycleWaveform"
    ELSE IF label = "Left" /\ curledCount(landmarks) >= FIST_MIN_CURLED
         THEN "toggleDelay"
    ELSE "none"

\* WAVES.indexOf(w), 0-based
IndexOf(w) == (CHOOSE i \in 1..Len(WAVES) : WAVES[i] = w) - 1

\* useAudioEngine.ts:48-50: the waveform after w in WAVES
NextWave(w) == WAVES[((IndexOf(w) + 1) % Len(WAVES)) + 1]

\* useAudioEngine.ts:57
ToggledMix(mix) == IF mix > TOGGLE_THRESHOLD THEN 0 ELSE TOGGLE_ON_MIX

\* ------------------------------------------------------------- AudioEngine
\* ctx: the graph is built; osc: an oscillator exists; oscOut: what the
\* oscillator feeds ("none", "split" for delay and dry, "drive"); driveOut:
\* the saturation node feeds delay and dry; the gains are the targets the
\* last setTargetAtTime (or .value) gave them; liveOscs: the oscillators
\* that were created and started and not stopped since.
NewEngine ==
    [ctx |-> FALSE, osc |-> FALSE, oscType |-> "none", oscFreq |-> 0,
     oscOut |-> "none", driveOut |-> FALSE, isPlaying |-> FALSE,
     currentType |-> "sine", currentDelayMix |-> DEFAULT_DELAY_MIX,
     isAnalogMode |-> FALSE, masterGain |-> 0, dryGain |-> 0, wetGain |-> 0,
     liveOscs |-> 0]

\* the dry gain left alone
updateWetOnly(e, mix) ==
    IF e.ctx THEN [e EXCEPT !.wetGain = mix] ELSE e

updateDelayMix(e, mix) ==
    IF e.ctx THEN [e EXCEPT !.dryGain = 100 - mix, !.wetGain = mix] ELSE e

\* the guard left out: the graph is rebuilt on every call
initRebuilds(e) ==
    updateDelayMix([e EXCEPT !.ctx = TRUE, !.masterGain = 0],
                   e.currentDelayMix)

AudioEngine_init(e) ==
    IF e.ctx THEN e
    ELSE updateDelayMix([e EXCEPT !.ctx = TRUE, !.masterGain = 0],
                        e.currentDelayMix)

connectOscillator(e) ==
    IF ~e.osc \/ ~e.ctx THEN e
    ELSE IF e.isAnalogMode THEN [e EXCEPT !.oscOut = "drive", !.driveOut = TRUE]
    ELSE [e EXCEPT !.oscOut = "split"]

\* the isPlaying guard left out
startUnguarded(e) ==
    IF ~e.ctx THEN e
    ELSE [connectOscillator(
              [e EXCEPT !.osc = TRUE,
                        !.oscType = e.currentType,
                        !.oscFreq = DEFAULT_OSC_FREQ * FixedPoint])
            EXCEPT !.isPlaying = TRUE, !.liveOscs = @ + 1]

AudioEngine_start(e) ==
    IF ~e.ctx \/ e.isPlaying THEN e
    ELSE [connectOscillator(
              [e EXCEPT !.osc = TRUE,
                        !.oscType = e.currentType,
                        !.oscFreq = DEFAULT_OSC_FREQ * FixedPoint])
            EXCEPT !.isPlaying = TRUE, !.liveOscs = @ + 1]

\* the engine's parameters put back to their defaults
stopResetsParameters(e) ==
    LET off == IF e.osc
               THEN [e EXCEPT !.osc = FALSE, !.oscType = "none",
                              !.oscFreq = 0, !.oscOut = "none",
                              !.liveOscs = @ - 1]
               ELSE e
    IN  [off EXCEPT !.isPlaying = FALSE,
                    !.masterGain = IF e.ctx THEN 0 ELSE @,
                    !.currentType = "sine",
                    !.isAnalogMode = FALSE]

\* the mute moved into the oscillator's branch
stopMutesOnlyWhenPlaying(e) ==
    IF e.osc
    THEN [e EXCEPT !.osc = FALSE, !.oscType = "none", !.oscFreq = 0,
                   !.oscOut = "none", !.isPlaying = FALSE,
                   !.masterGain = 0, !.liveOscs = @ - 1]
    ELSE [e EXCEPT !.isPlaying = FALSE]

AudioEngine_stop(e) ==
    LET off == IF e.osc
               THEN [e EXCEPT !.osc = FALSE, !.oscType = "none",
                              !.oscFreq = 0, !.oscOut = "none",
                              !.liveOscs = @ - 1]
               ELSE e
    IN  [off EXCEPT !.isPlaying = FALSE,
                    !.masterGain = IF e.ctx THEN 0 ELSE @]

\* the running oscillator not reconnected
setAnalogModeFlagOnly(e, enabled) == [e EXCEPT !.isAnalogMode = enabled]

AudioEngine_setAnalogMode(e, enabled) ==
    LET f == [e EXCEPT !.isAnalogMode = enabled]
    IN  IF f.isPlaying THEN connectOscillator(f) ELSE f

\* the guard left out
setFrequencyUnguarded(e, freq) == [e EXCEPT !.oscFreq = freq]

AudioEngine_setFrequency(e, freq) ==
    IF e.osc /\ e.ctx THEN [e EXCEPT !.oscFreq = freq] ELSE e

\* the gain linear in the volume
NotSquared(volume) == volume

\* volume * volume for a fixed-point volume (1 is 100 * FixedPoint), in the
\* same fixed point, rounded down; computed in two parts to stay within
\* 32 bits
Squared(volume) ==
    LET whole == volume \div FixedPoint
        rest == volume % FixedPoint
    IN  (volume * whole) \div 100 + (volume * rest) \div (100 * FixedPoint)

\* a floor under the gain
setVolumeWithFloor(e, volume) ==
    IF e.ctx THEN [e EXCEPT !.masterGain = Squared(volume) + 1] ELSE e

\* part_001:284-292: the gain's target is the square of the volume
AudioEngine_setVolume(e, volume) ==
    IF e.ctx THEN [e EXCEPT !.masterGain = Squared(volume)] ELSE e

\* the running oscillator left as it is
setWaveformHeldOnly(e, type) == [e EXCEPT !.currentType = type]

AudioEngine_setWaveform(e, type) ==
    [e EXCEPT !.currentType = type,
              !.oscType = IF e.osc THEN type ELSE @]

\* the dry share stored as the mix
SetDelayMixStoresDry(e, mix) ==
    updateDelayMix([e EXCEPT !.currentDelayMix = 100 - mix], mix)

AudioEngine_setDelayMix(e, mix) ==
    updateDelayMix([e EXCEPT !.currentDelayMix = mix], mix)

\* --------------------------------------------------------------------- state
VARIABLES
    now,              \* Date.now() at the latest vision tick or timeout
    lastTick,         \* the latest vision tick: its time and its hand records,
                      \* and whether a tick so far had a left-hand record
    gestureLog,       \* the gesture events emitted so far, oldest first
    \* useHandTracking
    lastGestureTime, targetPitch, targetVol, rightHandActive, leftHandActive,
    error, tracker,
    \* useAudioEngine
    isReady, waveform, delayMix, activePitch, activeVol, engineRef,
    rafPending, currentPitch, currentVol,
    \* App
    isLoading, closure,
    \* services/audioEngine
    engine,
    \* smoothing-loop iterations and manual control changes so far
    iters, manualOps,
    \* AudioEngine methods have been called from outside the hooks
    directCalls,
    \* the latest such call: its method, its argument, the method before it
    lastCall,
    \* the smoothed pitch at the latest vision tick, and the smoothing-loop
    \* iterations since
    held,
    \* the component is mounted; the handler whose error nothing caught
    mounted, uncaught,
    \* App: the feedback text with the time it was shown, and the times at
    \* which the setTimeout callbacks that clear it are due
    gestureFeedback, feedbackTimers

handVars == <<targetPitch, targetVol, rightHandActive, leftHandActive>>
gestureVars == <<now, lastTick, gestureLog, lastGestureTime>>
smoothVars == <<activePitch, activeVol, currentPitch, currentVol>>
startVars == <<error, tracker, isReady, isLoading, engineRef>>
uiVars == <<waveform, delayMix>>
lifeVars == <<mounted, uncaught>>
feedbackVars == <<gestureFeedback, feedbackTimers>>

vars ==
    <<handVars, gestureVars, smoothVars, startVars, uiVars, rafPending,
      closure, engine, iters, manualOps, directCalls, lastCall, held,
      lifeVars, feedbackVars>>

\* useState<string | null>(null): no text
NoFeedback == [text |-> <<>>, shownAt |-> 0]

\* The state of the first render.  closure is what the gesture handler that
\* the tracker holds sees of the React state: handleGesture is memoized on
\* [audio], a list evaluated before audio is assigned (part_003:27-30), so
\* the list never changes, the handler of the first render is kept, and the
\* cycleWaveform and toggleDelay it reaches are the ones that closed over
\* the first render's waveform and delayMix.
Init ==
    /\ now = PageLoadTime
    /\ lastTick = [time |-> 0, hands |-> <<>>, leftSeen |-> FALSE]
    /\ gestureLog = <<>>
    /\ lastGestureTime = 0
    /\ targetPitch = MIN_FREQ
    /\ targetVol = 0
    /\ rightHandActive = FALSE
    /\ leftHandActive = FALSE
    /\ error = "null"
    /\ tracker = "none"
    /\ isReady = FALSE
    /\ waveform = "sine"
    /\ delayMix = DEFAULT_DELAY_MIX
    /\ activePitch = 0
    /\ activeVol = 0
    /\ engineRef = FALSE
    /\ rafPending = 0
    /\ currentPitch =
          (IF MIN_FREQ # 0 THEN MIN_FREQ ELSE FALLBACK_PITCH) * FixedPoint
    /\ currentVol = 0
    /\ isLoading = FALSE
    /\ closure = [waveform |-> "sine", delayMix |-> DEFAULT_DELAY_MIX]
    /\ engine = NewEngine
    /\ iters = 0
    /\ manualOps = 0
    /\ directCalls = FALSE
    /\ lastCall = [op |-> "none", arg |-> "none", before |-> "none"]
    /\ held = [from |-> currentPitch, iters |-> 0]
    /\ mounted = TRUE
    /\ uncaught = "none"
    /\ gestureFeedback = NoFeedback
    /\ feedbackTimers = {}

\* ------------------------------------------------------------ gesture events
\* useAudioEngine.ts:47-54, on the state s that a vision callback threads
\* through its hand records: seen is the waveform the callback closed over
cycleWaveform(s, seen) ==
    LET nextWave == NextWave(seen)
    IN  [s EXCEPT !.waveform = nextWave,
                  !.engine = IF s.engineRef
                             THEN AudioEngine_setWaveform(@, nextWave) ELSE @]

\* useAudioEngine.ts:56-61: seen is the delayMix the callback closed over
toggleDelay(s, seen) ==
    LET newMix == ToggledMix(seen)
    IN  [s EXCEPT !.delayMix = newMix,
                  !.engine = IF s.engineRef
                             THEN AudioEngine_setDelayMix(@, newMix) ELSE @]

\* part_003:14-17 at time t: the text is shown and a timeout is set that
\* clears whatever text is shown when it is due
showGestureFeedback(s, text, t) ==
    [s EXCEPT !.gestureFeedback = [text |-> text, shownAt |-> t],
              !.feedbackTimers = @ \cup {t + FEEDBACK_MS}]

\* part_003:19-27
handleGesture(s, gesture, t) ==
    IF gesture = "cycleWaveform"
    THEN LET after == cycleWaveform(s, s.closure.waveform)
         IN  showGestureFeedback(after, <<"WAVE", after.waveform>>, t)
    ELSE IF gesture = "toggleDelay"
    THEN LET after == toggleDelay(s, s.closure.delayMix)
         IN  showGestureFeedback(
                 after, <<"DELAY", IF after.delayMix > 0 THEN "ON" ELSE "OFF">>,
                 t)
    ELSE s

\* the timestamp taken by every call that passes the cooldown test or not
EmitStampsAlways(s, gesture, t) ==
    LET after == handleGesture(s, gesture, t)
    IN  IF gesture = "none" THEN [s EXCEPT !.lastGestureTime = t]
        ELSE [after EXCEPT
                !.lastGestureTime = t,
                !.gestureLog = Append(@,
                    [gesture |-> gesture, time |-> t,
                     waveBefore |-> s.waveform, waveAfter |-> after.waveform,
                     mixBefore |-> s.delayMix, mixAfter |-> after.delayMix])]

\* useHandTracking.ts:38-39 and 52-53: onGesture(...), then the timestamp.
\* The log entry keeps what the UI showed before and after the event.
Emit(s, gesture, t) ==
    IF gesture = "none" THEN s
    ELSE LET after == handleGesture(s, gesture, t)
         IN  [after EXCEPT
                !.lastGestureTime = t,
                !.gestureLog = Append(@,
                    [gesture |-> gesture, time |-> t,
                     waveBefore |-> s.waveform, waveAfter |-> after.waveform,
                     mixBefore |-> s.delayMix, mixAfter |-> after.delayMix])]

\* the label test left out of the pitch branch: every hand sets the pitch
ProcessHandAnyPitch(s, hand, t) ==
    LET g == handleGestureDetection(hand.landmarks, hand.label, t,
                                    s.lastGestureTime)
        s1 == Emit(s, g, t)
        indexTip == hand.landmarks[8]
        s2 == [s1 EXCEPT !.targetPitch = PitchFor(indexTip.x)]
    IN  IF hand.label = "Right"
        THEN [s2 EXCEPT !.rHandFound = TRUE]
        ELSE [s2 EXCEPT !.lHandFound = TRUE,
                        !.targetVol = VolumeFor(indexTip.y)]

\* right-hand records not counted as found
ProcessHandRightUnseen(s, hand, t) ==
    LET g == handleGestureDetection(hand.landmarks, hand.label, t,
                                    s.lastGestureTime)
        s1 == Emit(s, g, t)
        indexTip == hand.landmarks[8]
    IN  IF hand.label = "Right"
        THEN [s1 EXCEPT !.targetPitch = PitchFor(indexTip.x)]
        ELSE [s1 EXCEPT !.lHandFound = TRUE,
                        !.targetVol = VolumeFor(indexTip.y)]

\* a read of landmarks[i].x for an i the list does not reach, or of
\* handedness.label for a record without its handedness entry (label
\* "undefined"), is a TypeError
HasLandmarks(landmarks, ids) == ids \subseteq DOMAIN landmarks
GestureThrows(landmarks, label, t, last) ==
    /\ CooldownElapsed(t, last)
    /\ \/ label = "Right" /\ ~HasLandmarks(landmarks, {4, 8})
       \/ label = "Left" /\ ~HasLandmarks(landmarks, {0, 8, 12, 16, 20})
Threw(s) == [s EXCEPT !.threw = TRUE]

\* useHandTracking.ts:85-123: one hand record of a tick
ProcessHand(s, hand, t) ==
    IF hand.label = "undefined" THEN Threw(s)
    ELSE IF GestureThrows(hand.landmarks, hand.label, t, s.lastGestureTime)
    THEN Threw(s)
    ELSE LET g == handleGestureDetection(hand.landmarks, hand.label, t,
                                         s.lastGestureTime)
             s1 == Emit(s, g, t)
             indexTip == hand.landmarks[8]
         IN  IF ~HasLandmarks(hand.landmarks, {8}) THEN Threw(s1)
             ELSE IF hand.label = "Right"
             THEN [s1 EXCEPT !.rHandFound = TRUE,
                             !.targetPitch = PitchFor(indexTip.x)]
             ELSE [s1 EXCEPT !.lHandFound = TRUE,
                             !.targetVol = VolumeFor(indexTip.y)]

\* useHandTracking.ts:83-125: the loop ends at the first record that throws
RECURSIVE ProcessHands(_, _, _)
ProcessHands(s, hands, t) ==
    IF hands = <<>> \/ s.threw THEN s
    ELSE ProcessHands(ProcessHand(s, Head(hands), t), Tail(hands), t)

\* the auto-mute left out
NoAutoMute(lHandFound, vol) == vol

\* useHandTracking.ts:127-129
AutoMute(lHandFound, vol) == IF ~lHandFound THEN 0 ELSE vol

\* useHandTracking.ts:58-141: the vision callback, dt ms after the last
\* event, on a mounted component (without its canvas the callback returns
\* at once, line 61).  A timeout that is due earlier runs first.  An error
\* thrown in the loop ends the callback: what the records before it have
\* set stays, the auto-mute and the hand flags are not reached.
onResults(hands, dt) ==
    /\ tracker = "running"
    /\ mounted
    /\ now + dt <= PageLoadTime + MaxElapsed
    /\ \A due \in feedbackTimers : now + dt <= due
    /\ LET t == now + dt
           s0 == [lastGestureTime |-> lastGestureTime,
                  gestureLog |-> gestureLog, waveform |-> waveform,
                  delayMix |-> delayMix, engine |-> engine,
                  engineRef |-> engineRef, closure |-> closure,
                  targetPitch |-> targetPitch, targetVol |-> targetVol,
                  gestureFeedback |-> gestureFeedback,
                  feedbackTimers |-> feedbackTimers,
                  rHandFound |-> FALSE, lHandFound |-> FALSE,
                  threw |-> FALSE]
           s1 == ProcessHands(s0, hands, t)
       IN  /\ now' = t
           /\ lastTick' =
                 [time |-> t, hands |-> hands,
                  leftSeen |-> \/ lastTick.leftSeen
                               \/ \E i \in 1..Len(hands) :
                                     hands[i].label = "Left"]
           /\ lastGestureTime' = s1.lastGestureTime
           /\ gestureLog' = s1.gestureLog
           /\ waveform' = s1.waveform
           /\ delayMix' = s1.delayMix
           /\ engine' = s1.engine
           /\ targetPitch' = s1.targetPitch
           /\ gestureFeedback' = s1.gestureFeedback
           /\ feedbackTimers' = s1.feedbackTimers
           /\ targetVol' = IF s1.threw THEN s1.targetVol
                           ELSE AutoMute(s1.lHandFound, s1.targetVol)
           /\ rightHandActive' = IF s1.threw THEN rightHandActive
                                 ELSE s1.rHandFound
           /\ leftHandActive' = IF s1.threw THEN leftHandActive
                                ELSE s1.lHandFound
           /\ uncaught' = IF s1.threw THEN "onResults" ELSE uncaught
    /\ held' = [from |-> currentPitch, iters |-> 0]
    /\ UNCHANGED <<smoothVars, startVars, rafPending, closure, iters,
                   manualOps, directCalls, lastCall, mounted>>

\* ------------------------------------------------------------- smoothing loop
\* useAudioEngine.ts:22-35 on engine e, with engineRef.current set or not:
\* one iteration, which schedules the next one (pending counts the
\* callbacks that stay scheduled besides)
updateAudio(e, ref, pending) ==
    IF ~ref
    THEN /\ engine' = e
         /\ rafPending' = pending
         /\ UNCHANGED <<smoothVars, held>>
    ELSE LET pitch == lerp(currentPitch, targetPitch * FixedPoint,
                           SMOOTHING_FACTOR)
             vol == lerp(currentVol, targetVol * FixedPoint, SMOOTHING_FACTOR)
         IN  /\ currentPitch' = pitch
             /\ currentVol' = vol
             /\ engine' = AudioEngine_setVolume(
                              AudioEngine_setFrequency(e, pitch), vol)
             /\ activePitch' = Round(pitch)
             /\ activeVol' = Round(vol)
             /\ rafPending' = pending + 1
             /\ held' = [held EXCEPT !.iters = @ + 1]

\* the frame request kept
cancelNothing(pending) == pending

\* cancelAnimationFrame(animationFrameRef.current): the callback requested
\* last, when it is still scheduled, is taken off
cancelAnimationFrame(pending) == IF pending > 0 THEN pending - 1 ELSE 0

\* the scheduler runs the pending requestAnimationFrame callback
animationFrame ==
    /\ rafPending > 0
    /\ iters < MaxIter
    /\ iters' = iters + 1
    /\ updateAudio(engine, engineRef, rafPending - 1)
    /\ UNCHANGED <<handVars, gestureVars, startVars, uiVars, closure,
                   manualOps, directCalls, lastCall, lifeVars, feedbackVars>>

\* the same callback, counted since the latest vision tick
smoothingFrame ==
    /\ rafPending > 0
    /\ held.iters < MaxHeld
    /\ updateAudio(engine, engineRef, rafPending - 1)
    /\ UNCHANGED <<handVars, gestureVars, startVars, uiVars, closure, iters,
                   manualOps, directCalls, lastCall, lifeVars, feedbackVars>>

\* ------------------------------------------------------------- initialization
\* part_003:35-38 up to the await of camera.start(): useAudioEngine.ts:37-45
\* and useHandTracking.ts:143-167.  The awaits before it resume in
\* microtasks, so no other callback runs in between.
initializeTheremin ==
    /\ mounted
    /\ ~isReady /\ ~isLoading
    /\ isLoading' = TRUE
    /\ engineRef' = TRUE
    /\ updateAudio(AudioEngine_start(AudioEngine_init(engine)), TRUE,
                   cancelAnimationFrame(rafPending))
    /\ isReady' = TRUE
    /\ tracker' = "starting"
    /\ UNCHANGED <<handVars, gestureVars, uiVars, error, closure, iters,
                   manualOps, directCalls, lastCall, lifeVars, feedbackVars>>

\* initializeTheremin invoked again, whatever the button's render condition
\* (part_003:76): after a failed camera start, or before the first
\* invocation's camera has started.  Two invocations from one task come to
\* the same as two in turn, because the second init() returns at once.
reinitialize ==
    /\ mounted
    /\ isReady
    /\ held.iters < MaxHeld
    /\ isLoading' = TRUE
    /\ engineRef' = TRUE
    /\ updateAudio(AudioEngine_start(AudioEngine_init(engine)), TRUE,
                   cancelAnimationFrame(rafPending))
    /\ isReady' = TRUE
    /\ tracker' = "starting"
    /\ UNCHANGED <<handVars, gestureVars, uiVars, error, closure, iters,
                   manualOps, directCalls, lastCall, lifeVars, feedbackVars>>

\* useHandTracking.ts:167 resolves; part_003:39
cameraStarted ==
    /\ tracker = "starting"
    /\ tracker' = "running"
    /\ isLoading' = (IF mounted THEN FALSE ELSE isLoading)
    /\ UNCHANGED <<handVars, gestureVars, smoothVars, uiVars, error, isReady,
                   engineRef, rafPending, closure, engine, iters, manualOps,
                   directCalls, lastCall, held, lifeVars, feedbackVars>>

\* useHandTracking.ts:167 rejects: 169-172, then part_003:39
cameraFailed ==
    /\ tracker = "starting"
    /\ tracker' = "failed"
    /\ error' = (IF mounted
                 THEN "Failed to initialize camera. Please grant permissions."
                 ELSE error)
    /\ isLoading' = (IF mounted THEN FALSE ELSE isLoading)
    /\ UNCHANGED <<handVars, gestureVars, smoothVars, uiVars, isReady,
                   engineRef, rafPending, closure, engine, iters, manualOps,
                   directCalls, lastCall, held, lifeVars, feedbackVars>>

\* part_003:35-37 when audioEngine.init() throws at new AudioContext()
\* (part_001:166): the rejection passes through initialize and
\* initializeTheremin, which have no catch, after setIsLoading(true)
audioInitFailed ==
    /\ mounted
    /\ ~isReady /\ ~isLoading
    /\ ~engine.ctx
    /\ isLoading' = TRUE
    /\ uncaught' = "initializeTheremin"
    /\ UNCHANGED <<handVars, gestureVars, smoothVars, uiVars, error, tracker,
                   isReady, engineRef, rafPending, closure, engine, iters,
                   manualOps, directCalls, lastCall, held, mounted,
                   feedbackVars>>

\* the component unmounts: the cleanups of useAudioEngine.ts:73-78 and
\* useHandTracking.ts:175-179
unmount ==
    /\ mounted
    /\ mounted' = FALSE
    /\ rafPending' = cancelAnimationFrame(rafPending)
    /\ engine' = IF engineRef THEN AudioEngine_stop(engine) ELSE engine
    /\ tracker' = IF tracker = "none" THEN tracker ELSE "closed"
    /\ UNCHANGED <<handVars, gestureVars, smoothVars, uiVars, error, isReady,
                   isLoading, engineRef, closure, iters, manualOps,
                   directCalls, lastCall, held, uncaught, feedbackVars>>

\* part_003:16: the timeout that is due first runs and clears the text
\* that is shown (a state update after the unmount does nothing)
feedbackTimeout ==
    /\ feedbackTimers # {}
    /\ LET due == CHOOSE d \in feedbackTimers :
                      \A other \in feedbackTimers : d <= other
       IN  /\ now' = IF now > due THEN now ELSE due
           /\ feedbackTimers' = feedbackTimers \ {due}
    /\ gestureFeedback' = IF mounted THEN NoFeedback ELSE gestureFeedback
    /\ UNCHANGED <<handVars, lastTick, gestureLog, lastGestureTime,
                   smoothVars, startVars, uiVars, rafPending, closure,
                   engine, iters, manualOps, directCalls, lastCall, held,
                   lifeVars>>

\* ------------------------------------------------------------ manual controls
\* the manual change taken for a gesture: it restarts the cooldown
handleWaveformChangeStamps(type) ==
    /\ mounted
    /\ manualOps < MaxManual
    /\ manualOps' = manualOps + 1
    /\ waveform' = type
    /\ lastGestureTime' = now
    /\ engine' = IF engineRef THEN AudioEngine_setWaveform(engine, type)
                 ELSE engine
    /\ UNCHANGED <<handVars, now, lastTick, gestureLog, smoothVars, startVars,
                   delayMix, rafPending, closure, iters, directCalls,
                   lastCall, held, lifeVars, feedbackVars>>

\* useAudioEngine.ts:63-66, from a waveform button of Controls.tsx:33-36
handleWaveformChange(type) ==
    /\ mounted
    /\ manualOps < MaxManual
    /\ manualOps' = manualOps + 1
    /\ waveform' = type
    /\ engine' = IF engineRef THEN AudioEngine_setWaveform(engine, type)
                 ELSE engine
    /\ UNCHANGED <<handVars, gestureVars, smoothVars, startVars, delayMix,
                   rafPending, closure, iters, directCalls, lastCall, held,
                   lifeVars, feedbackVars>>

\* useAudioEngine.ts:68-71, from the delay slider of Controls.tsx:59-67
handleDelayChange(mix) ==
    /\ mounted
    /\ manualOps < MaxManual
    /\ manualOps' = manualOps + 1
    /\ delayMix' = mix
    /\ engine' = IF engineRef THEN AudioEngine_setDelayMix(engine, mix)
                 ELSE engine
    /\ UNCHANGED <<handVars, gestureVars, smoothVars, startVars, waveform,
                   rafPending, closure, iters, directCalls, lastCall, held,
                   lifeVars, feedbackVars>>

\* ------------------------------------------------------------ direct API use
\* A public method of the AudioEngine (part_001:138-319) called on the
\* engine itself, not through a hook.
Called(op, arg) ==
    /\ directCalls' = TRUE
    /\ lastCall' = [op |-> op, arg |-> arg, before |-> lastCall.op]
    /\ UNCHANGED <<handVars, gestureVars, smoothVars, startVars, uiVars,
                   rafPending, closure, iters, manualOps, held,
                   lifeVars, feedbackVars>>

setDelayMixDirect(mix) ==
    /\ engine' = AudioEngine_setDelayMix(engine, mix)
    /\ Called("setDelayMix", mix)

initDirect ==
    /\ engine' = AudioEngine_init(engine)
    /\ Called("init", "none")

startDirect ==
    /\ engine' = AudioEngine_start(engine)
    /\ Called("start", "none")

stopDirect ==
    /\ engine' = AudioEngine_stop(engine)
    /\ Called("stop", "none")

setAnalogModeDirect(enabled) ==
    /\ engine' = AudioEngine_setAnalogMode(engine, enabled)
    /\ Called("setAnalogMode", enabled)

setFrequencyDirect(freq) ==
    /\ engine' = AudioEngine_setFrequency(engine, freq)
    /\ Called("setFrequency", freq)

setVolumeDirect(volume) ==
    /\ engine' = AudioEngine_setVolume(engine, volume)
    /\ Called("setVolume", volume)

setWaveformDirect(type) ==
    /\ engine' = AudioEngine_setWaveform(engine, type)
    /\ Called("setWaveform", type)

\* ------------------------------------------------------------- specifications
WaveformTypes == {WAVES[i] : i \in 1..Len(WAVES)}

Start == initializeTheremin \/ cameraStarted \/ cameraFailed

Manual ==
    \/ \E type \in WaveformTypes : handleWaveformChange(type)
    \/ \E mix \in SliderValues : handleDelayChange(mix)

\* The whole application.
Next ==
    \/ Start
    \/ \E hands \in GestureFrames \cup ControlFrames, dt \in TickGaps :
          onResults(hands, dt)
    \/ animationFrame
    \/ Manual

Spec == Init /\ [][Next]_vars

\* Gestures and manual controls.  The smoothing loop, which is left out,
\* writes smoothVars and the engine's oscFreq and masterGain only.
NextGesture ==
    \/ Start
    \/ \E hands \in GestureFrames, dt \in TickGaps : onResults(hands, dt)
    \/ Manual

SpecGesture == Init /\ [][NextGesture]_vars

\* The control mapper and the smoothing loop.  The manual controls, which
\* are left out, write uiVars and the engine's type and delay mix only.
NextControl ==
    \/ Start
    \/ \E hands \in ControlFrames, dt \in ControlGaps : onResults(hands, dt)
    \/ animationFrame

SpecControl == Init /\ [][NextControl]_vars

\* The delay mix: ToggleDelay gestures, the slider and direct use of the
\* engine's setDelayMix.  The waveform buttons, which are left out, write
\* waveform and the engine's type only.
MixFrames == {<<>>, <<LeftFist>>, <<LeftOpen>>, <<RightPinch, LeftFist>>}
MixGaps == {GESTURE_COOLDOWN \div 2}
NextMix ==
    \/ Start
    \/ \E hands \in MixFrames, dt \in MixGaps : onResults(hands, dt)
    \/ \E mix \in SliderValues : handleDelayChange(mix)
    \/ \E mix \in EngineMixes : setDelayMixDirect(mix)

SpecMix == Init /\ [][NextMix]_vars

\* The geometry of the gestures: one hand record per tick, of either label,
\* the thumb 0.03 or exactly 0.05 from the index tip, and none to four of
\* the finger tips 0.10 from the wrist, the others exactly 0.15 or more.
GeoFrames ==
    {<<MkHand(label, Pt(50, 50), thumbOff, wristOff, curled)>> :
        label \in {"Left", "Right"}, thumbOff \in {PinchOff, NoPinchOff},
        wristOff \in {WristNear, WristFar},
        curled \in {{}, {12}, {12, 16}, {12, 16, 20}}}
GeoGaps == {400, GESTURE_COOLDOWN}
NextGeo ==
    \/ Start
    \/ \E hands \in GeoFrames, dt \in GeoGaps : onResults(hands, dt)

SpecGeo == Init /\ [][NextGeo]_vars

\* The AudioEngine on its own, its public methods called in any order.
EngineVolumes == {0, 30 * FixedPoint, 50 * FixedPoint, 100 * FixedPoint}
EngineFreqs == {MAX_FREQ * FixedPoint}
NextEngine ==
    \/ initDirect
    \/ startDirect
    \/ stopDirect
    \/ \E enabled \in BOOLEAN : setAnalogModeDirect(enabled)
    \/ \E freq \in EngineFreqs : setFrequencyDirect(freq)
    \/ \E volume \in EngineVolumes : setVolumeDirect(volume)
    \/ \E type \in WaveformTypes : setWaveformDirect(type)
    \/ \E mix \in EngineMixes : setDelayMixDirect(mix)

SpecEngine == Init /\ [][NextEngine]_vars

\* The smoothing loop alone after a vision tick: the targets are held while
\* it runs.  Two ticks, so that the loop also starts from where an earlier
\* run has left the smoothed values.
SmoothFrames == {<<RightAt(0)>>, <<RightAt(100)>>, <<LeftAt(0), RightAt(25)>>}
SmoothGaps == {MaxElapsed \div 2}
NextSmooth ==
    \/ Start
    \/ \E hands \in SmoothFrames, dt \in SmoothGaps : onResults(hands, dt)
    \/ smoothingFrame

SpecSmooth == Init /\ [][NextSmooth]_vars

\* Startup, failure and teardown: initialization succeeds or fails, the
\* component unmounts at any moment.
LifecycleFrames == {<<>>, <<RightAt(25), LeftAt(25)>>}
LifecycleGaps == {400}
NextLifecycle ==
    \/ Start
    \/ audioInitFailed
    \/ \E hands \in LifecycleFrames, dt \in LifecycleGaps :
          onResults(hands, dt)
    \/ animationFrame
    \/ unmount

SpecLifecycle == Init /\ [][NextLifecycle]_vars

\* The smoothing loop under repeated initialization, before any vision
\* tick.
NextReinit ==
    \/ Start
    \/ reinitialize
    \/ smoothingFrame

SpecReinit == Init /\ [][NextReinit]_vars

\* The smoothing loop as the browser runs it: a requested animation frame
\* is eventually delivered.
SpecFade == Init /\ [][NextSmooth]_vars /\ WF_vars(smoothingFrame)

\* Frames that are not well formed: a record that ends before landmark n,
\* a record without its handedness entry.
Truncated(hand, n) ==
    [hand EXCEPT !.landmarks =
        [i \in {j \in LandmarkIds : j < n} |-> hand.landmarks[i]]]
Unlabelled(hand) == [hand EXCEPT !.label = "undefined"]
MalformedFrames ==
    { <<>>, <<RightOpen>>, <<LeftOpen>>,
      <<Truncated(RightOpen, 8)>>, <<Truncated(RightPinch, 9)>>,
      <<Truncated(LeftOpen, 20)>>, <<Unlabelled(RightOpen)>>,
      <<LeftOpen, Unlabelled(RightOpen)>> }
MalformedGaps == {400, 1100}
NextMalformed ==
    \/ Start
    \/ \E hands \in MalformedFrames, dt \in MalformedGaps :
          onResults(hands, dt)
    \/ animationFrame

SpecMalformed == Init /\ [][NextMalformed]_vars

\* Gestures and the timeouts of their feedback texts.
FeedbackFrames == {<<>>, <<RightPinch>>, <<LeftFist>>}
NextFeedback ==
    \/ Start
    \/ \E hands \in FeedbackFrames, dt \in TickGaps : onResults(hands, dt)
    \/ feedbackTimeout

SpecFeedback == Init /\ [][NextFeedback]_vars

\* --------------------------------------------------------------- properties
Ticked == lastTick.time > 0
HandsOf(label) ==
    SelectSeq(lastTick.hands, LAMBDA h : h.label = label)
LastHand(label) == HandsOf(label)[Len(HandsOf(label))]

\* a record that emits once the cooldown has elapsed
Qualifies(h) ==
    \/ h.label = "Right" /\ IsPinch(h.landmarks)
    \/ h.label = "Left" /\ curledCount(h.landmarks) >= FIST_MIN_CURLED
QualifyingTick ==
    Ticked /\ \E i \in 1..Len(lastTick.hands) : Qualifies(lastTick.hands[i])
\* the latest tick emitted an event, and the time of the emission before it
EmittedNow ==
    gestureLog # <<>> /\ gestureLog[Len(gestureLog)].time = lastTick.time
EmissionBefore ==
    IF ~EmittedNow THEN lastGestureTime
    ELSE IF Len(gestureLog) = 1 THEN 0
    ELSE gestureLog[Len(gestureLog) - 1].time

\* C1: any two gesture events, whatever their types, were emitted at least
\* 1000 ms apart.
C1_EventsACooldownApart ==
    \A i, j \in 1..Len(gestureLog) :
        i < j => gestureLog[j].time - gestureLog[i].time >= 1000

\* a left-hand fist arrived inside the window a right-hand pinch had opened,
\* and emitted nothing
C1_Witness ==
    /\ Len(gestureLog) = 1
    /\ gestureLog[1].gesture = "cycleWaveform"
    /\ lastTick.hands = <<LeftFist>>
    /\ lastTick.time - gestureLog[1].time \in 1..999

\* C2: a tick with a qualifying record emits exactly when at least 1000 ms
\* have passed since the emission before it.
C2_QualifyingTickEmitsAfterCooldown ==
    QualifyingTick =>
        (EmittedNow <=> lastTick.time - EmissionBefore >= 1000)

\* two pinches 1100 ms apart fired two events, and a third pinch 200 ms
\* after the second fired none
C2_Witness ==
    /\ Len(gestureLog) = 2
    /\ gestureLog[1].gesture = "cycleWaveform"
    /\ gestureLog[2].gesture = "cycleWaveform"
    /\ gestureLog[2].time - gestureLog[1].time = 1100
    /\ lastTick.time = gestureLog[2].time + 200
    /\ lastTick.hands = <<RightPinch>>

Successor(w) ==
    CASE w = "sine" -> "triangle"
      [] w = "triangle" -> "sawtooth"
      [] w = "sawtooth" -> "square"
      [] w = "square" -> "sine"

\* C3: every CycleWaveform event moves the UI waveform and the engine's to
\* the successor of the waveform shown before it, so that four events in a
\* row return to the original.
C3_CycleFollowsOrder ==
    /\ \A i \in 1..Len(gestureLog) :
          gestureLog[i].gesture = "cycleWaveform" =>
              gestureLog[i].waveAfter = Successor(gestureLog[i].waveBefore)
    /\ \A i \in 1..Len(gestureLog) :
          (/\ i + 3 <= Len(gestureLog)
           /\ \A k \in i..(i + 3) : gestureLog[k].gesture = "cycleWaveform"
           /\ \A k \in i..(i + 2) :
                 gestureLog[k].waveAfter = gestureLog[k + 1].waveBefore)
              => gestureLog[i + 3].waveAfter = gestureLog[i].waveBefore
    /\ (EmittedNow /\ gestureLog[Len(gestureLog)].gesture = "cycleWaveform")
          => engine.currentType = gestureLog[Len(gestureLog)].waveAfter

\* C4: every ToggleDelay event sets delayMix to 0 when the delayMix in force
\* before it is above 0.1, and to 0.5 otherwise.
C4_ToggleFollowsMixInForce ==
    \A i \in 1..Len(gestureLog) :
        gestureLog[i].gesture = "toggleDelay" =>
            gestureLog[i].mixAfter =
                (IF gestureLog[i].mixBefore > 10 THEN 0 ELSE 50)

\* C5: targetVolume and currentVolume are in [0,1] and targetPitch is in
\* [100,1500] in every reachable state.
C5_ControlRanges ==
    /\ targetVol >= 0 /\ targetVol <= 100
    /\ currentVol >= 0 /\ currentVol <= 100 * FixedPoint
    /\ targetPitch >= 100 /\ targetPitch <= 1500

\* an index tip beyond the frame's edge set the pitch while the smoothed
\* volume was on its way
C5_Witness ==
    /\ lastTick.hands = <<RightAt(-10)>>
    /\ targetPitch = 1500
    /\ iters > 0
    /\ currentVol > 0

\* C6, as claimed: the UI's delayMix and the engine's are in [0, 0.8].
C6_MixInSliderRange ==
    /\ delayMix >= 0 /\ delayMix <= 80
    /\ engine.currentDelayMix >= 0 /\ engine.currentDelayMix <= 80

\* C6, amended: the UI's delayMix is in [0, 0.8]; the engine's is in [0, 0.8]
\* as long as setDelayMix has not been called directly, and in [0, 1] after.
C6_MixInSliderRangeUnlessDirect ==
    /\ delayMix >= 0 /\ delayMix <= 80
    /\ ~directCalls =>
          (engine.currentDelayMix >= 0 /\ engine.currentDelayMix <= 80)
    /\ engine.currentDelayMix >= 0 /\ engine.currentDelayMix <= 100

\* a ToggleDelay gesture, then the slider moved to its maximum, or the
\* other way round, with no direct call
C6_Witness ==
    /\ ~directCalls
    /\ engineRef
    /\ manualOps > 0
    /\ \E i \in 1..Len(gestureLog) : gestureLog[i].gesture = "toggleDelay"
    /\ engine.currentDelayMix \in {0, 80}

\* C7: after a tick without a left-hand record targetVolume is 0.
C7_AutoMuteIsImmediate ==
    (Ticked /\ HandsOf("Left") = <<>>) => targetVol = 0

\* the left hand had raised the volume, the loop had followed, and the tick
\* without a left hand put the target at 0 at once
C7_Witness ==
    /\ Ticked /\ HandsOf("Left") = <<>>
    /\ targetVol = 0
    /\ currentVol > 0

\* C8: after a tick with a right-hand record the pitch target is
\* 100 + (1 - x) * 1400 clamped to [100,1500], x being the index tip of the
\* tick's last right-hand record; the mapping never increases with x.
ClaimedPitch(x) ==
    LET v == 100 + ((100 - x) * 1400) \div 100
    IN  IF v < 100 THEN 100 ELSE IF v > 1500 THEN 1500 ELSE v
C8_PitchMapping ==
    /\ (Ticked /\ HandsOf("Right") # <<>>) =>
          targetPitch = ClaimedPitch(LastHand("Right").landmarks[8].x)
    /\ PitchFor(25) = 1150 /\ PitchFor(0) = 1500 /\ PitchFor(100) = 100
    /\ \A x \in -10..109 : PitchFor(x) >= PitchFor(x + 1)

C8_Witness ==
    /\ Ticked /\ HandsOf("Right") # <<>>
    /\ LastHand("Right").landmarks[8].x = 25
    /\ targetPitch = 1150

\* C9: after a tick with a left-hand record the volume target is 1 - y
\* clamped to [0,1], y being the index tip of the tick's last left-hand
\* record.
ClaimedVolume(y) ==
    IF 100 - y < 0 THEN 0 ELSE IF 100 - y > 100 THEN 100 ELSE 100 - y
C9_VolumeMapping ==
    /\ (Ticked /\ HandsOf("Left") # <<>>) =>
          targetVol = ClaimedVolume(LastHand("Left").landmarks[8].y)
    /\ VolumeFor(90) = 10
    /\ \A y \in -10..0 : VolumeFor(y) = 100
    /\ \A y \in 100..110 : VolumeFor(y) = 0

C9_Witness ==
    /\ Ticked /\ HandsOf("Left") # <<>>
    /\ LastHand("Left").landmarks[8].y = 90
    /\ targetVol = 10

\* C10: a tick without a right-hand record leaves targetPitch as it was.
C10_PitchHeldWithoutRightHand ==
    [][(lastTick' # lastTick
          /\ SelectSeq(lastTick'.hands, LAMBDA h : h.label = "Right") = <<>>)
        => targetPitch' = targetPitch]_vars

\* a pitch only a right hand can have set, after a tick without one
C10_Witness ==
    /\ Ticked /\ HandsOf("Right") = <<>>
    /\ targetPitch = 1150

Abs(v) == IF v < 0 THEN -v ELSE v
PitchDistance == Abs(currentPitch - targetPitch * FixedPoint)
\* what rounding down to the fixed-point step adds to a distance, at most
RoundingSlack == 100 \div SMOOTHING_FACTOR + 1

\* C11, as claimed: after 30 iterations with the target held, currentPitch
\* is less than 1 Hz from targetPitch.
C11_WithinOneHzAfter30 ==
    held.iters >= 30 => PitchDistance < FixedPoint

\* C11, amended: after 30 iterations with the target held the distance is
\* below 1% of the distance the run started with; after 45 it is below 1 Hz.
C11_OnePercentAfter30 ==
    /\ held.iters >= 30 =>
          100 * PitchDistance
              <= Abs(held.from - targetPitch * FixedPoint)
                   + 100 * RoundingSlack
    /\ held.iters >= 45 => PitchDistance < FixedPoint

\* 30 iterations after a tick that moved the target 1400 Hz away: about
\* 10.7 Hz are left
C11_Witness ==
    /\ held.iters = 30
    /\ Abs(held.from - targetPitch * FixedPoint) = 1400 * FixedPoint
    /\ PitchDistance > 10 * FixedPoint
    /\ PitchDistance < 11 * FixedPoint

\* new lies between old and target, closer to it by the factor 0.85 (to
\* within one fixed-point step), and strictly closer unless old is within
\* the rounding of target already
StepsToward(old, new, target) ==
    /\ old <= target => (old <= new /\ new <= target)
    /\ old >= target => (target <= new /\ new <= old)
    /\ Abs(100 * Abs(target - new) - 85 * Abs(target - old)) < 100
    /\ Abs(target - old) >= RoundingSlack =>
          Abs(target - new) < Abs(target - old)

\* C12: every smoothing iteration moves currentPitch and currentVolume
\* toward their targets without crossing them, the distance shrinking by
\* the factor 0.85.
C12_IterationStepsToward ==
    [][held'.iters = held.iters + 1 =>
          /\ StepsToward(currentPitch, currentPitch',
                         targetPitch * FixedPoint)
          /\ StepsToward(currentVol, currentVol', targetVol * FixedPoint)]_vars

\* three iterations into a rise of both the pitch and the volume
C12_Witness ==
    /\ held.iters = 3
    /\ held.from < currentPitch /\ currentPitch < targetPitch * FixedPoint
    /\ 0 < currentVol /\ currentVol < targetVol * FixedPoint

\* C13: setVolume(v) on an initialized engine sets the master gain's target
\* to v squared, for v in [0,1].
C13_GainIsVolumeSquared ==
    (lastCall.op = "setVolume" /\ engine.ctx) =>
        LET v == lastCall.arg \div FixedPoint
        IN  /\ 100 * engine.masterGain = v * v * FixedPoint
            /\ (0 < v /\ v < 100) => engine.masterGain < lastCall.arg

\* setVolume(0.5) on an initialized engine: the target is 0.25
C13_Witness ==
    /\ engine.ctx
    /\ lastCall.op = "setVolume"
    /\ lastCall.arg = 50 * FixedPoint
    /\ engine.masterGain = 25 * FixedPoint

Silent(e) == ~e.osc /\ ~e.isPlaying /\ (e.ctx => e.masterGain = 0)

\* C14: in every engine state stop() called twice leaves what stop() called
\* once leaves: no oscillator, isPlaying false, master gain target 0; on an
\* engine that is uninitialized or not playing it leaves isPlaying false.
C14_StopIdempotent ==
    LET once == AudioEngine_stop(engine)
    IN  /\ AudioEngine_stop(once) = once
        /\ Silent(once)
        /\ once.ctx = engine.ctx
        /\ lastCall.op = "stop" => Silent(engine)

\* stop() called twice in a row on an initialized engine
C14_Witness ==
    /\ engine.ctx
    /\ lastCall.op = "stop"
    /\ lastCall.before = "stop"

\* C15: on an initialized engine the dry gain target plus the wet gain
\* target is 1, with wet = m and dry = 1 - m for the mix m held.
C15_CrossfadeSumsToOne ==
    engine.ctx =>
        /\ engine.dryGain + engine.wetGain = 100
        /\ engine.wetGain = engine.currentDelayMix
        /\ lastCall.op = "setDelayMix" => engine.wetGain = lastCall.arg

\* two setDelayMix calls in a row on an initialized engine, the last with 0.9
C15_Witness ==
    /\ engine.ctx
    /\ lastCall = [op |-> "setDelayMix", arg |-> 90, before |-> "setDelayMix"]
    /\ engine.dryGain = 10
    /\ engine.wetGain = 90

\* C19: init() on an initialized engine changes nothing, and on an
\* uninitialized one leaves it initialized, not playing, the master gain
\* at 0; start() on an uninitialized or a playing engine changes nothing, and
\* on an initialized engine that is not playing creates the oscillator and
\* sets isPlaying.
C19_Lifecycle ==
    [][/\ lastCall'.op = "init" =>
            IF engine.ctx THEN engine' = engine
            ELSE /\ engine'.ctx /\ ~engine'.isPlaying /\ ~engine'.osc
                 /\ engine'.masterGain = 0
       /\ lastCall'.op = "start" =>
            IF ~engine.ctx \/ engine.isPlaying THEN engine' = engine
            ELSE ~engine.osc /\ engine'.osc /\ engine'.isPlaying
       /\ engine'.isPlaying => engine'.ctx]_vars

\* start() right after stop() on an engine that had been initialized
C19_Witness ==
    /\ lastCall.op = "start"
    /\ lastCall.before = "stop"
    /\ engine.ctx /\ engine.osc /\ engine.isPlaying

\* C20: an oscillator that exists has the held waveform type, and
\* setWaveform(t) makes t the held type in every engine state.
C20_OscillatorHasHeldType ==
    /\ engine.osc => engine.oscType = engine.currentType
    /\ lastCall.op = "setWaveform" => engine.currentType = lastCall.arg

\* setWaveform("square") on a running oscillator
C20_Witness ==
    /\ engine.osc
    /\ lastCall.op = "setWaveform"
    /\ lastCall.arg = "square"
    /\ engine.oscType = "square"

\* the gestures emitted at the latest tick, and whether the cooldown had
\* elapsed when the tick came
EmittedAtTick ==
    SelectSeq(gestureLog, LAMBDA g : g.time = lastTick.time)
CooldownOver == Ticked /\ lastTick.time - EmissionBefore >= 1000

\* C16: a tick that holds a pinching right hand and a fisted left hand, the
\* cooldown elapsed, emits exactly one event, CycleWaveform, whatever the
\* order of its records.
C16_BothHandsEmitCycle ==
    (/\ CooldownOver
     /\ \E i \in 1..Len(lastTick.hands) :
           lastTick.hands[i].label = "Right" /\ Qualifies(lastTick.hands[i])
     /\ \E i \in 1..Len(lastTick.hands) :
           lastTick.hands[i].label = "Left" /\ Qualifies(lastTick.hands[i]))
        => /\ Len(EmittedAtTick) = 1
           /\ EmittedAtTick[1].gesture = "cycleWaveform"

\* squares of distances between landmarks of the latest tick's first record,
\* in hundredths
TickHand == lastTick.hands[1]
SqDist(a, b) ==
    (TickHand.landmarks[a].x - TickHand.landmarks[b].x)
        * (TickHand.landmarks[a].x - TickHand.landmarks[b].x)
    + (TickHand.landmarks[a].y - TickHand.landmarks[b].y)
        * (TickHand.landmarks[a].y - TickHand.landmarks[b].y)
EmittedNowIs(gesture) ==
    EmittedAtTick # <<>> /\ EmittedAtTick[1].gesture = gesture

\* C17: with the cooldown elapsed, a record emits CycleWaveform exactly when
\* it is labelled Right and its thumb tip is less than 0.05 from its index
\* tip.
C17_PinchThreshold ==
    (CooldownOver /\ Len(lastTick.hands) = 1) =>
        (EmittedNowIs("cycleWaveform")
            <=> (TickHand.label = "Right" /\ SqDist(4, 8) < 5 * 5))

\* a right hand with the thumb exactly 0.05 from the index tip, the
\* cooldown elapsed: nothing is emitted
C17_Witness ==
    /\ CooldownOver /\ Len(lastTick.hands) = 1
    /\ TickHand.label = "Right"
    /\ SqDist(4, 8) = 5 * 5
    /\ EmittedAtTick = <<>>

NearWrist == {i \in {8, 12, 16, 20} : SqDist(i, 0) < 15 * 15}

\* C18: with the cooldown elapsed, a record emits ToggleDelay exactly when
\* it is labelled Left and at least 3 of its landmarks 8, 12, 16, 20 are
\* less than 0.15 from its wrist.
C18_FistThreshold ==
    (CooldownOver /\ Len(lastTick.hands) = 1) =>
        (EmittedNowIs("toggleDelay")
            <=> (TickHand.label = "Left" /\ Cardinality(NearWrist) >= 3))

\* a left hand with two tips near the wrist and two exactly 0.15 from it,
\* the cooldown elapsed: nothing is emitted
C18_Witness ==
    /\ CooldownOver /\ Len(lastTick.hands) = 1
    /\ TickHand.label = "Left"
    /\ Cardinality(NearWrist) = 2
    /\ \E i \in {12, 16, 20} : SqDist(i, 0) = 15 * 15
    /\ EmittedAtTick = <<>>


\* the oscillator's outputs are those of the mode e holds
RoutingMatchesMode(e) ==
    IF e.isAnalogMode THEN e.oscOut = "drive" /\ e.driveOut
    ELSE e.oscOut = "split"

\* C21: after every call of the engine, an engine that is playing has its
\* oscillator routed as isAnalogMode says (analog: into the saturation node
\* only, which feeds delay and dry; digital: into delay and dry directly),
\* and setAnalogMode on an engine that is not playing changes nothing but
\* the flag.
C21_RoutingFollowsAnalogMode ==
    [][/\ engine'.isPlaying => RoutingMatchesMode(engine')
       /\ lastCall'.op = "setAnalogMode" /\ ~engine.isPlaying
            => engine' = [engine EXCEPT !.isAnalogMode = lastCall'.arg]]_vars

C21_Witness ==
    /\ lastCall.op = "setAnalogMode"
    /\ lastCall.arg = TRUE
    /\ lastCall.before = "start"
    /\ engine.isPlaying
    /\ engine.oscOut = "drive"

\* C27: setFrequency on an engine without an oscillator, and setVolume on an
\* engine that was never initialized, leave the engine as it was.
C27_SettersNeedTheirNode ==
    [][/\ lastCall'.op = "setFrequency" /\ ~engine.osc => engine' = engine
       /\ lastCall'.op = "setVolume" /\ ~engine.ctx => engine' = engine]_vars

C27_Witness ==
    /\ lastCall.op = "setFrequency"
    /\ lastCall.before = "stop"
    /\ engine.ctx
    /\ ~engine.osc
    /\ engine.oscFreq = 0

\* C29: isPlaying is true exactly when the engine has an oscillator, and no
\* more than one oscillator is alive at any time.
C29_OneOscillatorWhenPlaying ==
    /\ engine.isPlaying <=> engine.osc
    /\ engine.liveOscs = (IF engine.osc THEN 1 ELSE 0)

C29_Witness ==
    /\ lastCall.op = "start"
    /\ lastCall.before = "start"
    /\ engine.isPlaying
    /\ engine.liveOscs = 1


\* C22: the smoothing loop runs an iteration only on an engine whose init()
\* has completed and only while the component is mounted, and once the
\* component has unmounted no smoothing callback stays scheduled.
C22_LoopWithinInitAndTeardown ==
    [][/\ held'.iters > held.iters \/ iters' > iters
            => engine'.ctx /\ engineRef' /\ mounted'
       /\ ~mounted' => rafPending' = 0 /\ ~engine'.isPlaying]_vars

C22_Witness ==
    /\ ~mounted
    /\ iters > 0
    /\ engine.ctx
    /\ rafPending = 0
    /\ uncaught = "none"

\* C23: once initialization has failed (the audio init or the camera start
\* raised) the system is in its pre-start state: engine not playing,
\* isStarted false, isLoading false, the error shown.
C23_FailedInitReturnsToPreStart ==
    mounted /\ (tracker = "failed" \/ uncaught = "initializeTheremin")
        => /\ ~engine.isPlaying
           /\ ~isReady
           /\ ~isLoading
           /\ error # "null"

\* C24: no vision callback raises an error, whatever its frame: no hand
\* record, a record with fewer than 21 landmarks, a record without its
\* handedness entry.
C24_CallbackNeverRaises == uncaught # "onResults"

\* C25: a feedback text is cleared no sooner than 1500 ms after it was
\* shown.
C25_TextShownFor1500 ==
    [][gestureFeedback.text # <<>> /\ gestureFeedback'.text = <<>>
          => now' - gestureFeedback.shownAt >= 1500]_vars

\* C26: lastGestureTime changes only in a tick that emits an event, and
\* then to the time of that tick; a tick none of whose calls emits (inside
\* the cooldown, or no qualifying geometry) leaves lastGestureTime, the
\* waveform and the delay mix as they were.
C26_TimestampOnlyOnEmission ==
    [][/\ lastGestureTime' # lastGestureTime
            => /\ Len(gestureLog') = Len(gestureLog) + 1
               /\ lastGestureTime' = lastTick'.time
       /\ lastTick'.time # lastTick.time /\ gestureLog' = gestureLog
            => UNCHANGED <<lastGestureTime, waveform, delayMix>>]_vars

C26_Witness ==
    /\ Len(gestureLog) = 1
    /\ QualifyingTick
    /\ lastTick.time > gestureLog[1].time
    /\ lastTick.time - gestureLog[1].time < GESTURE_COOLDOWN
    /\ lastGestureTime = gestureLog[1].time

\* C28: after each vision tick rightHandActive is true exactly when the
\* tick had a record labelled Right, and leftHandActive exactly when it had
\* a record of the other hand; with no record both are false.
C28_ActiveFlagsFollowTick ==
    Ticked =>
        /\ rightHandActive <=> HandsOf("Right") # <<>>
        /\ leftHandActive <=>
              \E i \in 1..Len(lastTick.hands) :
                  lastTick.hands[i].label # "Right"

C28_Witness ==
    /\ Ticked
    /\ HandsOf("Right") # <<>>
    /\ HandsOf("Left") = <<>>
    /\ rightHandActive
    /\ ~leftHandActive
    /\ targetVol = 0

\* C30: the waveform and the delay mix the UI shows are the type and the
\* mix the engine holds.
C30_UiShowsEngineParameters ==
    /\ waveform = engine.currentType
    /\ delayMix = engine.currentDelayMix


\* C34: stop() leaves the held waveform type, the delay mix and the analog
\* mode as they were, and the oscillator that a start() right after a stop()
\* creates has the held type and the routing of the held mode.
C34_StopStartKeepParameters ==
    [][/\ lastCall'.op = "stop"
            => /\ engine'.currentType = engine.currentType
               /\ engine'.currentDelayMix = engine.currentDelayMix
               /\ engine'.isAnalogMode = engine.isAnalogMode
       /\ lastCall'.op = "start" /\ lastCall'.before = "stop" /\ engine.ctx
            => /\ engine'.osc
               /\ engine'.oscType = engine.currentType
               /\ engine'.isAnalogMode = engine.isAnalogMode
               /\ RoutingMatchesMode(engine')]_vars

C34_Witness ==
    /\ lastCall.op = "start"
    /\ lastCall.before = "stop"
    /\ engine.osc
    /\ engine.oscType = "square"
    /\ engine.isAnalogMode
    /\ engine.oscOut = "drive"
    /\ engine.currentDelayMix = 90

\* C35: a manual control change leaves lastGestureTime and the gesture log
\* as they were, and whatever manual changes were made a tick with a
\* qualifying record emits exactly when 1000 ms have passed since the
\* emission before; a manual change is possible inside the cooldown.
C35_ManualLeavesDebounceAlone ==
    /\ [][manualOps' # manualOps
             => UNCHANGED <<lastGestureTime, gestureLog>>]_vars
    /\ [](QualifyingTick /\ manualOps > 0
             => (EmittedNow <=> lastTick.time - EmissionBefore >= 1000))
    /\ [](mounted /\ manualOps < MaxManual => ENABLED Manual)

C35_Witness ==
    /\ Len(gestureLog) = 2
    /\ manualOps = 1
    /\ gestureLog[1].waveAfter = "triangle"
    /\ gestureLog[2].waveBefore = "square"
    /\ gestureLog[2].time - gestureLog[1].time >= GESTURE_COOLDOWN
    /\ EmittedNow

\* C32: as long as no vision tick has had a left-hand record, the target
\* volume and the smoothed volume are 0 and the gain the smoothing loop has
\* set is 0.
C32_SilentUntilLeftHand ==
    ~lastTick.leftSeen =>
        /\ targetVol = 0
        /\ currentVol = 0
        /\ engine.masterGain = 0

C32_Witness ==
    /\ ~lastTick.leftSeen
    /\ gestureLog # <<>>
    /\ rightHandActive
    /\ iters = MaxIter
    /\ targetPitch = MAX_FREQ
    /\ engine.masterGain = 0


\* C31: at most one smoothing-loop callback is scheduled at any time, also
\* when initialization is invoked again (before the camera of the first
\* invocation has started, or after its start has failed).
C31_OneSmoothingChain == rafPending <= 1

C31_Witness ==
    /\ error # "null"
    /\ tracker = "starting"
    /\ rafPending = 1
    /\ held.iters >= 2

\* C33: with the target volume at 0 an iteration leaves the smoothed volume
\* at 0.85 times its value (above 0 unless it was within a fixed-point step
\* of 0), the smoothed volume never rises while the left hand is absent,
\* and once a tick has had no left hand the smoothed volume falls below
\* 0.01 unless a left hand comes back.
C33_FadeOutGradualAndComplete ==
    /\ [][/\ held'.iters = held.iters + 1 /\ targetVol = 0
               => /\ currentVol' = (85 * currentVol) \div 100
                  /\ currentVol >= 2 => currentVol' > 0
          /\ ~leftHandActive /\ ~leftHandActive'
               => currentVol' <= currentVol]_vars
    /\ (Ticked /\ ~leftHandActive) ~> (currentVol < FixedPoint \/ leftHandActive)

C33_Witness ==
    /\ lastTick.leftSeen
    /\ ~leftHandActive
    /\ targetVol = 0
    /\ held.iters = 1
    /\ currentVol > 50 * FixedPoint

====
